---- MODULE Spec2Model ----
(***************************************************************************)
(* Model of src/app.py: the column classifier, the data cleaner, the IQR   *)
(* outlier detector, the chart advisor and the Streamlit session that      *)
(* holds the original and the cleaned dataset.                             *)
(*                                                                         *)
(* A DataFrame is a record                                                 *)
(*   [columns : Seq(name), dtypes : Seq(dtype), index : Seq(label),        *)
(*    data : Seq(row)]            with row = Seq(cell), one cell per column*)
(* DataFrames live in a heap (a sequence of objects); Python variables and *)
(* session fields hold references (positions in the heap), so that copies, *)
(* in-place updates and aliasing are visible.                              *)
(***************************************************************************)
EXTENDS Integers, Sequences, FiniteSets, TLC

VARIABLES
    heap,                \* the DataFrame objects alive in the process
    uploaded_file,       \* value of the st.file_uploader widget (a file or None)
    df_original,         \* st.session_state.df_original  (reference or None)
    df_cleaned,          \* st.session_state.df_cleaned   (reference or None)
    cleaning_stats,      \* st.session_state.cleaning_stats (report or None)
    last_uploaded_file,  \* st.session_state.last_uploaded_file (name or None)
    origin_file,         \* history: the file df_original was loaded from
    last_action,         \* history: the user action of the last script run
    last_config,         \* history: the options of the most recent Clean
    df_work,             \* main's local df_work at the end of the last run
    pc,                  \* position of the function-level harness
    arg,                 \* arguments of the function under analysis
    res,                 \* its result
    res2                 \* the result of applying it again to its own output

vars == <<heap, uploaded_file, df_original, df_cleaned, cleaning_stats,
          last_uploaded_file, origin_file, last_action, last_config, df_work,
          pc, arg, res, res2>>

\* Python's None: as a value, as a DataFrame reference, as a file name
None == [none |-> TRUE]

NoneRef == 0

NoName == ""

(***************************************************************************)
(* Cells.  A cell is missing (NaN / None / NaT), a number n/d, a text      *)
(* value, a boolean, a timestamp or a duration.                            *)
(***************************************************************************)
NA == [t |-> "na", n |-> 0, d |-> 1, s |-> ""]
Num(i) == [t |-> "num", n |-> i, d |-> 1, s |-> ""]
Str(x) == [t |-> "str", n |-> 0, d |-> 1, s |-> x]
Bool(b) == [t |-> "bool", n |-> b, d |-> 1, s |-> ""]
Time(i) == [t |-> "time", n |-> i, d |-> 1, s |-> ""]
Delta(i) == [t |-> "delta", n |-> i, d |-> 1, s |-> ""]

isnull(c) == c.t = "na"

\* ---- exact arithmetic on numbers n/d (d > 0, lowest terms) ----
Abs(x) == IF x < 0 THEN -x ELSE x

RECURSIVE GCD(_, _)
GCD(a, b) == IF b = 0 THEN a ELSE GCD(b, a % b)

Rat(n, d) ==
    LET g == GCD(Abs(n), d)
    IN  [t |-> "num", n |-> n \div g, d |-> d \div g, s |-> ""]

RAdd(a, b) == Rat(a.n * b.d + b.n * a.d, a.d * b.d)
RSub(a, b) == Rat(a.n * b.d - b.n * a.d, a.d * b.d)
RScale(a, p, q) == Rat(a.n * p, a.d * q)          \* a * (p/q), q > 0
RLess(a, b) == a.n * b.d < b.n * a.d

\* ---- text values: their sort order and their numeric parse ----
TextOrder == <<"1", "1.0", "2", "a", "b", "x">>   \* ascending, as Python sorts str

StrRank(x) == CHOOSE i \in 1..Len(TextOrder) : TextOrder[i] = x

\* order of two present cells of one column (numbers by value, text by
\* string order, timestamps by time)
CellLess(a, b) ==
    IF a.t = "str" THEN StrRank(a.s) < StrRank(b.s) ELSE RLess(a, b)

(***************************************************************************)
(* DataFrame helpers (the pandas operations app.py calls).                 *)
(***************************************************************************)
len(df) == Len(df.data)

NumCols(df) == Len(df.columns)

Column(df, j) == [i \in 1..Len(df.data) |-> df.data[i][j]]

\* positions of the columns whose dtype is in the given set, in column order
RECURSIVE SelectFrom(_, _, _)
SelectFrom(df, kinds, j) ==
    IF j > Len(df.columns) THEN <<>>
    ELSE (IF df.dtypes[j] \in kinds THEN <<j>> ELSE <<>>)
         \o SelectFrom(df, kinds, j + 1)

select_dtypes(df, kinds) == SelectFrom(df, kinds, 1)

ColumnNames(df, js) == [k \in 1..Len(js) |-> df.columns[js[k]]]

\* the rows at the given positions, in their original order, labels kept
RECURSIVE TakeFrom(_, _, _)
TakeFrom(seq, keep, i) ==
    IF i > Len(seq) THEN <<>>
    ELSE (IF i \in keep THEN <<seq[i]>> ELSE <<>>) \o TakeFrom(seq, keep, i + 1)

TakeRows(df, keep) ==
    [df EXCEPT !.index = TakeFrom(df.index, keep, 1),
               !.data = TakeFrom(df.data, keep, 1)]

\* DataFrame.drop_duplicates(): scan the rows in order, remembering the rows
\* seen so far; a row already seen is dropped (missing cells compare equal)
RECURSIVE FirstSeen(_, _, _)
FirstSeen(data, i, seen) ==
    IF i > Len(data) THEN {}
    ELSE IF data[i] \in seen THEN FirstSeen(data, i + 1, seen)
         ELSE {i} \cup FirstSeen(data, i + 1, seen \cup {data[i]})

\* (variant: drop_duplicates(keep='last'), keeping the last occurrence)
drop_duplicates_keep_last(df) ==
    TakeRows(df, {i \in 1..Len(df.data) :
                     ~\E k \in (i + 1)..Len(df.data) : df.data[k] = df.data[i]})

drop_duplicates(df) == TakeRows(df, FirstSeen(df.data, 1, {}))

\* DataFrame.dropna(): keep the rows without any missing cell
RowHasNull(row) == \E j \in 1..Len(row) : isnull(row[j])

dropna(df) ==
    TakeRows(df, {i \in 1..Len(df.data) : ~RowHasNull(df.data[i])})

\* Series.isnull().any() and the number of missing cells of a column
AnyNull(df, j) == \E i \in 1..Len(df.data) : isnull(df.data[i][j])

NullCount(df, j) == Cardinality({i \in 1..Len(df.data) : isnull(df.data[i][j])})

\* the present (non-missing) cells of a column, in row order
RECURSIVE PresentFrom(_, _, _)
PresentFrom(df, j, i) ==
    IF i > Len(df.data) THEN <<>>
    ELSE (IF isnull(df.data[i][j]) THEN <<>> ELSE <<df.data[i][j]>>)
         \o PresentFrom(df, j, i + 1)

Present(df, j) == PresentFrom(df, j, 1)

\* Series.fillna(v, inplace=True) on column j: every missing cell becomes v
\* (filling with a missing v, the mean of no values, changes nothing)
FillColumn(df, j, v) ==
    [df EXCEPT !.data = [i \in 1..Len(df.data) |->
        [df.data[i] EXCEPT ![j] = IF isnull(df.data[i][j]) THEN v ELSE @]]]

\* df[col] = series
SetColumn(df, j, cells, dtype) ==
    [df EXCEPT !.dtypes[j] = dtype,
               !.data = [i \in 1..Len(df.data) |->
                            [df.data[i] EXCEPT ![j] = cells[i]]]]

\* ---- column statistics ----
RECURSIVE SumSeq(_)
SumSeq(cells) ==
    IF cells = <<>> THEN Num(0) ELSE RAdd(cells[1], SumSeq(Tail(cells)))

\* Series.mean(): missing when the column has no present value
mean(df, j) ==
    LET p == Present(df, j)
    IN  IF p = <<>> THEN NA ELSE RScale(SumSeq(p), 1, Len(p))

\* ascending sort (insertion sort, stable)
RECURSIVE Insert(_, _)
Insert(c, sorted) ==
    IF sorted = <<>> THEN <<c>>
    ELSE IF CellLess(c, sorted[1]) THEN <<c>> \o sorted
         ELSE <<sorted[1]>> \o Insert(c, Tail(sorted))

RECURSIVE Sort(_)
Sort(cells) ==
    IF cells = <<>> THEN <<>> ELSE Insert(cells[1], Sort(Tail(cells)))

\* Series.median(): middle value, or the mean of the two middle values
median(df, j) ==
    LET p == Sort(Present(df, j))
        n == Len(p)
    IN  IF n = 0 THEN NA
        ELSE IF n % 2 = 1 THEN p[(n + 1) \div 2]
             ELSE RScale(RAdd(p[n \div 2], p[n \div 2 + 1]), 1, 2)

\* Series.mode(): the most frequent present values, sorted ascending;
\* empty when the column has no present value
Count(cells, c) == Cardinality({i \in 1..Len(cells) : cells[i] = c})

RECURSIVE Uniq(_)
Uniq(sorted) ==
    IF Len(sorted) <= 1 THEN sorted
    ELSE IF sorted[1] = sorted[2] THEN Uniq(Tail(sorted))
         ELSE <<sorted[1]>> \o Uniq(Tail(sorted))

RECURSIVE KeepMost(_, _, _)
KeepMost(vals, cells, top) ==
    IF vals = <<>> THEN <<>>
    ELSE (IF Count(cells, vals[1]) = top THEN <<vals[1]>> ELSE <<>>)
         \o KeepMost(Tail(vals), cells, top)

mode(df, j) ==
    LET p == Present(df, j)
        vals == Uniq(Sort(p))
        top == CHOOSE m \in 0..Len(p) :
                   /\ \A k \in 1..Len(vals) : Count(p, vals[k]) <= m
                   /\ (vals # <<>> => \E k \in 1..Len(vals) : Count(p, vals[k]) = m)
                   /\ (vals = <<>> => m = 0)
    IN  KeepMost(vals, p, top)

(***************************************************************************)
(* analyze_column_types                                                    *)
(***************************************************************************)
NumericKinds == {"int64", "float64"}

CategoricalKinds == {"object", "category"}

DatetimeKinds == {"datetime64"}

analyze_column_types(df) ==
    [numeric |-> ColumnNames(df, select_dtypes(df, NumericKinds)),
     categorical |-> ColumnNames(df, select_dtypes(df, CategoricalKinds)),
     datetime |-> ColumnNames(df, select_dtypes(df, DatetimeKinds))]

(***************************************************************************)
(* clean_data                                                              *)
(***************************************************************************)
\* float(text) as pd.to_numeric does it; ok = FALSE when the text is no number
Parse(x) ==
    CASE x = "1"   -> [ok |-> TRUE, v |-> Num(1), float |-> FALSE]
      [] x = "1.0" -> [ok |-> TRUE, v |-> Num(1), float |-> TRUE]
      [] x = "2"   -> [ok |-> TRUE, v |-> Num(2), float |-> FALSE]
      [] OTHER     -> [ok |-> FALSE, v |-> NA, float |-> FALSE]

\* pd.to_numeric(series, errors='coerce'): the cells and the resulting dtype
to_numeric_cell(c) ==
    IF c.t = "str" THEN Parse(c.s).v
    ELSE IF c.t = "bool" THEN Num(c.n)
    ELSE IF c.t = "num" THEN c
    ELSE NA

to_numeric(cells) == [i \in 1..Len(cells) |-> to_numeric_cell(cells[i])]

to_numeric_dtype(cells) ==
    IF \E i \in 1..Len(cells) :
           \/ isnull(to_numeric_cell(cells[i]))
           \/ (cells[i].t = "str" /\ Parse(cells[i].s).float)
           \/ (cells[i].t = "num" /\ cells[i].d # 1)
    THEN "float64" ELSE "int64"

NotNaCount(cells) == Cardinality({i \in 1..Len(cells) : ~isnull(cells[i])})

\* the fixed 80% policy, as the ratio ThresholdNum / ThresholdDen
ThresholdNum == 4

ThresholdDen == 5

\* converted.notna().sum() / len(df_cleaned) > 0.8   (0/0 is NaN: not greater)
ShouldConvert(converted, df) ==
    NotNaCount(converted) * ThresholdDen > ThresholdNum * len(df)

Warning(method, cols, cat, num) ==
    [method |-> method, cols |-> cols, categorical_filled |-> cat,
     numeric_filled |-> num]

\* for col in numeric_cols: if df_cleaned[col].isnull().any(): fillna(stat)
\* acc = [df, handled]; stat is "mean" or "median"
RECURSIVE FillNumeric(_, _, _)
FillNumeric(acc, js, stat) ==
    IF js = <<>> THEN acc
    ELSE LET j == js[1]
             v == IF stat = "mean" THEN mean(acc.df, j) ELSE median(acc.df, j)
         IN  IF AnyNull(acc.df, j)
             THEN FillNumeric([df |-> FillColumn(acc.df, j, v),
                               handled |-> acc.handled + 1], Tail(js), stat)
             ELSE FillNumeric(acc, Tail(js), stat)

\* for col in df_cleaned.columns: fill with mode_val[0] when a mode exists
\* acc = [df, handled, numeric_filled, categorical_filled]
RECURSIVE FillMode(_, _)
FillMode(acc, j) ==
    IF j > Len(acc.df.columns) THEN acc
    ELSE LET mode_val == mode(acc.df, j)
         IN  IF AnyNull(acc.df, j) /\ mode_val # <<>>
             THEN FillMode(
                    [df |-> FillColumn(acc.df, j, mode_val[1]),
                     handled |-> acc.handled + 1,
                     numeric_filled |-> acc.numeric_filled +
                         (IF acc.df.dtypes[j] \in NumericKinds THEN 1 ELSE 0),
                     categorical_filled |-> acc.categorical_filled +
                         (IF acc.df.dtypes[j] \in NumericKinds THEN 0 ELSE 1)],
                    j + 1)
             ELSE FillMode(acc, j + 1)

\* for col in select_dtypes(include=['object']): convert when the ratio passes
\* acc = [df, converted]; js are the text columns found before the loop
RECURSIVE ConvertTypes(_, _)
ConvertTypes(acc, js) ==
    IF js = <<>> THEN acc
    ELSE LET j == js[1]
             cells == Column(acc.df, j)
             converted == to_numeric(cells)
         IN  IF ShouldConvert(converted, acc.df)
             THEN ConvertTypes(
                    [df |-> SetColumn(acc.df, j, converted, to_numeric_dtype(cells)),
                     converted |-> acc.converted + 1], Tail(js))
             ELSE ConvertTypes(acc, Tail(js))

\* df.copy(): a new object with the same contents
Copy(h, ref) == Append(h, h[ref])

\* (variant: `df_cleaned = df`, binding the caller's object without a copy)
CopyAliased(h, ref) == [heap |-> h, ref |-> ref]

\* df_cleaned = df.copy(): the heap and the object df_cleaned is bound to
CopyOf(h, ref) == [heap |-> Copy(h, ref), ref |-> Len(h) + 1]

\* stage 1: df_cleaned = df_cleaned.drop_duplicates()  (a new object)
StageDuplicates(h, cur, remove_duplicates) ==
    IF remove_duplicates
    THEN [heap |-> Append(h, drop_duplicates(h[cur])), ref |-> Len(h) + 1,
          removed |-> len(h[cur]) - len(drop_duplicates(h[cur]))]
    ELSE [heap |-> h, ref |-> cur, removed |-> 0]

\* the text/category columns with missing cells, named in the warning
RECURSIVE WithNulls(_, _, _)
WithNulls(df, js, k) ==
    IF k > Len(js) THEN <<>>
    ELSE (IF AnyNull(df, js[k]) THEN <<df.columns[js[k]]>> ELSE <<>>)
         \o WithNulls(df, js, k + 1)

categorical_cols_with_nulls(df) ==
    WithNulls(df, select_dtypes(df, CategoricalKinds), 1)

\* stage 2: the if/elif chain on handle_missing (no else branch)
StageMissing(h, cur, handle_missing) ==
    CASE handle_missing = "drop" ->
           [heap |-> Append(h, dropna(h[cur])), ref |-> Len(h) + 1,
            handled |-> len(h[cur]) - len(dropna(h[cur])), warnings |-> <<>>]
      [] handle_missing \in {"fill_mean", "fill_median"} ->
           LET stat == IF handle_missing = "fill_mean" THEN "mean" ELSE "median"
               names == categorical_cols_with_nulls(h[cur])
               out == FillNumeric([df |-> h[cur], handled |-> 0],
                                  select_dtypes(h[cur], NumericKinds), stat)
           IN  [heap |-> [h EXCEPT ![cur] = out.df], ref |-> cur,
                handled |-> out.handled,
                warnings |-> IF names # <<>>
                             THEN <<Warning(stat, names, 0, 0)>> ELSE <<>>]
      [] handle_missing = "fill_mode" ->
           LET out == FillMode([df |-> h[cur], handled |-> 0,
                                numeric_filled |-> 0, categorical_filled |-> 0], 1)
           IN  [heap |-> [h EXCEPT ![cur] = out.df], ref |-> cur,
                handled |-> out.handled,
                warnings |-> IF out.categorical_filled > 0
                             THEN <<Warning("mode", <<>>, out.categorical_filled,
                                            out.numeric_filled)>>
                             ELSE <<>>]
      [] OTHER ->
           [heap |-> h, ref |-> cur, handled |-> 0, warnings |-> <<>>]

\* stage 3: type conversion, written into df_cleaned in place
StageConvert(h, cur, convert_types) ==
    IF convert_types
    THEN LET out == ConvertTypes([df |-> h[cur], converted |-> 0],
                                 select_dtypes(h[cur], {"object"}))
         IN  [heap |-> [h EXCEPT ![cur] = out.df], converted |-> out.converted]
    ELSE [heap |-> h, converted |-> 0]

\* stats['final_rows'], stats['final_cols'] and the return statement
Report(h, df, s1, s2, s3) ==
    [outcome |-> "returned",
     heap |-> s3.heap,
     df_cleaned |-> s2.ref,
     stats |-> [original_rows |-> len(h[df]),
                original_cols |-> NumCols(h[df]),
                duplicates_removed |-> s1.removed,
                missing_handled |-> s2.handled,
                types_converted |-> s3.converted,
                warnings |-> s2.warnings,
                final_rows |-> len(s3.heap[s2.ref]),
                final_cols |-> NumCols(s3.heap[s2.ref])]]

AfterMissing(h, df, cfg, s1, s2) ==
    Report(h, df, s1, s2, StageConvert(s2.heap, s2.ref, cfg.convert_types))

AfterDuplicates(h, df, cfg, s1) ==
    AfterMissing(h, df, cfg, s1, StageMissing(s1.heap, s1.ref, cfg.handle_missing))

\* (variant: the missing-value stage run before the duplicate stage)
MissingThenDuplicates(sM, sD) ==
    [heap |-> sD.heap, ref |-> sD.ref, handled |-> sM.handled,
     warnings |-> sM.warnings, removed |-> sD.removed]

AfterMissingFirst(h, df, cfg, sM) ==
    MissingThenDuplicates(sM, StageDuplicates(sM.heap, sM.ref,
                                              cfg.remove_duplicates))

AfterCopyMissingFirst(h, df, cfg, s0) ==
    AfterMissing(h, df, cfg,
                 AfterMissingFirst(h, df, cfg,
                     StageMissing(s0.heap, s0.ref, cfg.handle_missing)),
                 AfterMissingFirst(h, df, cfg,
                     StageMissing(s0.heap, s0.ref, cfg.handle_missing)))

AfterCopy(h, df, cfg, s0) ==
    AfterDuplicates(h, df, cfg,
                    StageDuplicates(s0.heap, s0.ref, cfg.remove_duplicates))

\* clean_data(df, remove_duplicates, handle_missing, convert_types) on heap h:
\* the heap after the call, the returned reference and the returned stats;
\* the stages run in order, each on the output of the one before
clean_data(h, df, cfg) == AfterCopy(h, df, cfg, CopyOf(h, df))

(***************************************************************************)
(* detect_outliers (method = 'iqr')                                        *)
(***************************************************************************)
\* Series.quantile(p/4): linear interpolation between the two nearest order
\* statistics; missing when there is no value
quantile(cells, p) ==
    LET srt == Sort(cells)
        n == Len(srt)
        lo == ((n - 1) * p) \div 4
        rem == ((n - 1) * p) % 4
    IN  IF n = 0 THEN NA
        ELSE IF rem = 0 THEN srt[lo + 1]
             ELSE RAdd(srt[lo + 1], RScale(RSub(srt[lo + 2], srt[lo + 1]), rem, 4))

\* float arithmetic with NaN: a missing operand gives a missing result, and
\* every comparison with a missing operand is False
Minus(a, b) == IF isnull(a) \/ isnull(b) THEN NA ELSE RSub(a, b)

Plus(a, b) == IF isnull(a) \/ isnull(b) THEN NA ELSE RAdd(a, b)

Times(a, p, q) == IF isnull(a) THEN NA ELSE RScale(a, p, q)

Lt(a, b) == ~isnull(a) /\ ~isnull(b) /\ RLess(a, b)

\* f"{x:.2f}": x in hundredths, rounded half to even
Format2(x) ==
    LET q == (x.n * 100) \div x.d
        r == (x.n * 100) % x.d
    IN  IF isnull(x) THEN 0
        ELSE IF 2 * r > x.d \/ (2 * r = x.d /\ q % 2 = 1) THEN q + 1 ELSE q

ColumnIndex(df, column) ==
    IF \E j \in 1..NumCols(df) : df.columns[j] = column
    THEN CHOOSE j \in 1..NumCols(df) : df.columns[j] = column
    ELSE 0

\* (variant: the mask written with <= and >=, flagging values on a bound)
outliers_mask_inclusive(df, j, lower_bound, upper_bound) ==
    {i \in 1..len(df) :
        \/ ~Lt(lower_bound, df.data[i][j]) /\ ~isnull(df.data[i][j])
        \/ ~Lt(df.data[i][j], upper_bound) /\ ~isnull(df.data[i][j])}

\* (df[column] < lower_bound) | (df[column] > upper_bound)
outliers_mask(df, j, lower_bound, upper_bound) ==
    {i \in 1..len(df) :
        Lt(df.data[i][j], lower_bound) \/ Lt(upper_bound, df.data[i][j])}

\* lambda x: f"Below {lower_bound:.2f}" if x < lower_bound else f"Above ..."
outlier_reason(x, lower_bound, upper_bound) ==
    IF Lt(x, lower_bound)
    THEN [text |-> "Below", bound |-> Format2(lower_bound)]
    ELSE [text |-> "Above", bound |-> Format2(upper_bound)]

\* outliers_df: the masked rows with the added outlier_reason column
OutliersFrame(df, j, mask, lower_bound, upper_bound) ==
    [index |-> TakeFrom(df.index, mask, 1),
     data |-> TakeFrom(df.data, mask, 1),
     outlier_reason |->
         TakeFrom([i \in 1..len(df) |->
                      outlier_reason(df.data[i][j], lower_bound, upper_bound)],
                  mask, 1)]

\* the stats dict; len(outliers_df) / len(data) raises ZeroDivisionError when
\* the column has no present value
OutlierResult(outliers_df, total, Q1, Q3, IQR, lower_bound, upper_bound) ==
    IF total = 0
    THEN [outcome |-> "raised", outliers_df |-> None, stats |-> None]
    ELSE [outcome |-> "returned",
          outliers_df |-> outliers_df,
          stats |-> [total_values |-> total,
                     outliers_count |-> Len(outliers_df.index),
                     outliers_percentage |->
                         Rat(Len(outliers_df.index) * 100, total),
                     lower_bound |-> lower_bound,
                     upper_bound |-> upper_bound,
                     Q1 |-> Q1, Q3 |-> Q3, IQR |-> IQR]]

Bounded(df, j, data, Q1, Q3, IQR, lower_bound, upper_bound) ==
    OutlierResult(OutliersFrame(df, j,
                                outliers_mask(df, j, lower_bound, upper_bound),
                                lower_bound, upper_bound),
                  Len(data), Q1, Q3, IQR, lower_bound, upper_bound)

Quartiled(df, j, data, Q1, Q3, IQR) ==
    Bounded(df, j, data, Q1, Q3, IQR,
            Minus(Q1, Times(IQR, 3, 2)), Plus(Q3, Times(IQR, 3, 2)))

Quantiled(df, j, data, Q1, Q3) == Quartiled(df, j, data, Q1, Q3, Minus(Q3, Q1))

Dropped(df, j, data) ==
    Quantiled(df, j, data, quantile(data, 1), quantile(data, 3))

detect_outliers(df, column) ==
    IF ColumnIndex(df, column) = 0
       \/ df.dtypes[ColumnIndex(df, column)] \notin NumericKinds
    THEN [outcome |-> "returned", outliers_df |-> None, stats |-> None]
    ELSE Dropped(df, ColumnIndex(df, column), Present(df, ColumnIndex(df, column)))

(***************************************************************************)
(* suggest_chart_type                                                      *)
(***************************************************************************)
\* the column labels Python treats as false in `if y_col`: the empty string
\* (a numeric header cell 0 of an Excel sheet gives the label 0, which is
\* false in the same way)
FalsyLabels == {""}

\* an optional column label: None, or a label
Label(name) == [label |-> name]

Member(names, c) == \E k \in 1..Len(names) : names[k] = c

\* y_col in col_types['numeric'] if y_col else False
y_is_numeric(y_col, col_types) ==
    IF y_col # None /\ y_col.label \notin FalsyLabels
    THEN Member(col_types.numeric, y_col.label)
    ELSE FALSE

x_is_numeric(x_col, col_types) == Member(col_types.numeric, x_col)

Suggest(y_col, x_num, y_num) ==
    IF y_col = None
    THEN (IF x_num THEN "histogram" ELSE "bar")
    ELSE IF x_num /\ y_num THEN "scatter"
         ELSE IF ~x_num /\ y_num THEN "box"
              ELSE IF x_num /\ ~y_num THEN "box"
                   ELSE "bar"

suggest_chart_type(x_col, y_col, df) ==
    Suggest(y_col,
            x_is_numeric(x_col, analyze_column_types(df)),
            y_is_numeric(y_col, analyze_column_types(df)))

(***************************************************************************)
(* The datasets the analysis ranges over.                                  *)
(***************************************************************************)
MaxRows == 2        \* rows of a dataset of Schemas
MaxTextRows == 6    \* rows of a single text column (TextDatasets)
MaxOutlierRows == 5 \* rows of a single numeric column (OutlierDatasets)

ColName == <<"c1", "c2">>

DTypes == {"int64", "float64", "bool", "object", "category", "datetime64",
           "timedelta64"}

\* the cells a column of each storage type can hold (int64 and bool columns
\* cannot hold a missing cell)
CellsOf(dtype) ==
    CASE dtype = "int64" -> {Num(1), Num(2)}
      [] dtype = "float64" -> {NA, Num(1), Num(2)}
      [] dtype = "bool" -> {Bool(0), Bool(1)}
      [] dtype = "object" -> {NA, Str("1"), Str("1.0"), Str("x")}
      [] dtype = "category" -> {NA, Str("a"), Str("b")}
      [] dtype = "datetime64" -> {NA, Time(1)}
      [] dtype = "timedelta64" -> {Delta(1)}

Schemas ==
    {<<dt>> : dt \in DTypes}
    \cup {<<"float64", "object">>, <<"datetime64", "float64">>,
          <<"category", "int64">>}

RowsOf(schema) ==
    {r \in [1..Len(schema) -> UNION {CellsOf(dt) : dt \in DTypes}] :
        \A j \in 1..Len(schema) : r[j] \in CellsOf(schema[j])}

SeqsUpTo(S, n) == UNION {[1..k -> S] : k \in 0..n}

\* a freshly loaded DataFrame: RangeIndex labels 0..n-1
Frame(schema, data) ==
    [columns |-> [j \in 1..Len(schema) |-> ColName[j]],
     dtypes |-> schema,
     index |-> [i \in 1..Len(data) |-> i - 1],
     data |-> data]

Datasets ==
    UNION {{Frame(schema, data) : data \in SeqsUpTo(RowsOf(schema), MaxRows)} :
           schema \in Schemas}

TextCells == {<<NA>>, <<Str("1")>>, <<Str("x")>>}

TextDatasets ==
    {Frame(<<"object">>, data) : data \in SeqsUpTo(TextCells, MaxTextRows)}

OutlierCells == {<<NA>>, <<Num(1)>>, <<Num(3)>>, <<Num(6)>>}

OutlierDatasets ==
    {Frame(<<"float64">>, data) : data \in SeqsUpTo(OutlierCells, MaxOutlierRows)}

\* the column names a caller can ask about: present ones and an absent one
ColumnArgs == {"c1", "c2", "zz"}

\* datasets for the chart advisor: those above, and the two-column ones with
\* the second header cell holding a label Python treats as false
Relabel(df) == [df EXCEPT !.columns[2] = ""]

ChartDatasets ==
    Datasets \cup {Relabel(D) : D \in {F \in Datasets : NumCols(F) = 2}}

\* the labels the selectboxes can hold: the columns and an absent name
ChartArgs == ColumnArgs \cup FalsyLabels

OptionalChartArgs == {None} \cup {Label(n) : n \in ChartArgs}

Policies == {"drop", "fill_mean", "fill_median", "fill_mode"}

\* what a caller can pass as handle_missing: the four policies and a typo
PolicyArgs == Policies \cup {"fill_zero"}

Configs(policies) ==
    [remove_duplicates : BOOLEAN, handle_missing : policies,
     convert_types : BOOLEAN]

(***************************************************************************)
(* Function-level analysis: one call of analyze_column_types or clean_data *)
(* on a dataset, and clean_data again on its own output.                   *)
(***************************************************************************)
SessionIdle ==
    /\ uploaded_file = None
    /\ df_original = NoneRef
    /\ df_cleaned = NoneRef
    /\ cleaning_stats = None
    /\ last_uploaded_file = NoName
    /\ origin_file = None
    /\ last_action = "none"
    /\ last_config = None
    /\ df_work = NoneRef

SessionUnchanged ==
    UNCHANGED <<uploaded_file, df_original, df_cleaned, cleaning_stats,
                last_uploaded_file, origin_file, last_action, last_config,
                df_work>>

InitFn(datasets) ==
    /\ SessionIdle
    /\ \E D \in datasets : heap = <<D>>
    /\ pc = "start"
    /\ arg = [df |-> 1, cfg |-> None, column |-> NoName]
    /\ res = None
    /\ res2 = None

\* the caller receives the (df_cleaned, stats) pair of call r; the second
\* call keeps the first result
Received(r) ==
    [outcome |-> r.outcome, df_cleaned |-> r.df_cleaned, stats |-> r.stats]

Returned(r, again) ==
    /\ heap' = r.heap
    /\ res' = IF again THEN res ELSE Received(r)
    /\ res2' = IF again THEN Received(r) ELSE res2

CallAnalyzeColumnTypes ==
    /\ pc = "start"
    /\ pc' = "classified"
    /\ res' = analyze_column_types(heap[arg.df])
    /\ UNCHANGED <<heap, arg, res2>>
    /\ SessionUnchanged

CallCleanData ==
    /\ pc = "start"
    /\ \E cfg \in Configs(PolicyArgs) :
         /\ arg' = [arg EXCEPT !.cfg = cfg]
         /\ Returned(clean_data(heap, arg.df, cfg), FALSE)
    /\ pc' = "cleaned"
    /\ SessionUnchanged

CallCleanDataAgain ==
    /\ pc = "cleaned"
    /\ Returned(clean_data(heap, res.df_cleaned, arg.cfg), TRUE)
    /\ pc' = "recleaned"
    /\ UNCHANGED arg
    /\ SessionUnchanged

NextClean == CallAnalyzeColumnTypes \/ CallCleanData \/ CallCleanDataAgain

InitClean == InitFn(Datasets \cup TextDatasets)

SpecClean == InitClean /\ [][NextClean]_vars

CallDetectOutliers ==
    /\ pc = "start"
    /\ \E column \in ColumnArgs :
         /\ arg' = [arg EXCEPT !.column = column]
         /\ res' = detect_outliers(heap[arg.df], column)
    /\ pc' = "detected"
    /\ UNCHANGED <<heap, res2>>
    /\ SessionUnchanged

NextOutliers == CallDetectOutliers

InitOutliers == InitFn(Datasets \cup OutlierDatasets)

SpecOutliers == InitOutliers /\ [][NextOutliers]_vars

CallSuggestChartType ==
    /\ pc = "start"
    /\ \E x_col \in ChartArgs, y_col \in OptionalChartArgs :
         /\ arg' = [df |-> arg.df, x_col |-> x_col, y_col |-> y_col]
         /\ res' = suggest_chart_type(x_col, y_col, heap[arg.df])
    /\ pc' = "suggested"
    /\ UNCHANGED <<heap, res2>>
    /\ SessionUnchanged

NextChart == CallSuggestChartType

InitChart == InitFn(ChartDatasets)

SpecChart == InitChart /\ [][NextChart]_vars

(***************************************************************************)
(* Properties of clean_data and analyze_column_types (SpecClean).          *)
(***************************************************************************)
Cleaned == pc = "cleaned"

Input == heap[arg.df]

Output == heap[res.df_cleaned]

\* positions of the rows that equal no earlier row in all columns
FirstOccurrences(df) ==
    {i \in 1..len(df) : ~\E k \in 1..(i - 1) : df.data[k] = df.data[i]}

Increasing(labels) ==
    \A k \in 1..(Len(labels) - 1) : labels[k] < labels[k + 1]

\* the dataset at the start of the missing-value stage
BeforeMissing == IF arg.cfg.remove_duplicates THEN drop_duplicates(Input) ELSE Input

\* C2: clean_data never mutates its input: across every call the object
\* passed in keeps its rows, columns, cells and missing cells, and the object
\* returned is a different object.
C2_InputNotMutated ==
    [][(pc' # pc /\ pc' \in {"cleaned", "recleaned"}) =>
          LET in == IF pc = "start" THEN arg.df ELSE res.df_cleaned
              out == IF pc = "start" THEN res'.df_cleaned ELSE res2'.df_cleaned
          IN  /\ heap'[in] = heap[in]
              /\ out # in]_vars

\* a call that filled a column in place (no stage made a new object after
\* the copy) and whose result differs from its input
C2_Witness ==
    /\ Cleaned
    /\ ~arg.cfg.remove_duplicates
    /\ arg.cfg.handle_missing = "fill_mean"
    /\ res.stats.missing_handled = 1
    /\ Output # Input
    /\ NullCount(Input, 1) > 0
    /\ NullCount(Output, 1) = 0

\* C3: with a missing-value policy that is none of drop, fill_mean,
\* fill_median, fill_mode, clean_data raises an invalid-argument error and
\* returns no cleaned dataset.
C3_UnknownPolicyRaises ==
    (Cleaned /\ arg.cfg.handle_missing \notin Policies) => res.outcome = "raised"

\* C4: analyze_column_types partitions the column names: every column is in
\* exactly one of numeric, categorical, datetime.
Occurrences(names, c) == Cardinality({k \in 1..Len(names) : names[k] = c})

C4_Partition ==
    pc = "classified" =>
        \A j \in 1..NumCols(Input) :
            Occurrences(res.numeric, Input.columns[j])
            + Occurrences(res.categorical, Input.columns[j])
            + Occurrences(res.datetime, Input.columns[j]) = 1

\* C5: with remove_duplicates the rows kept by the duplicate stage are
\* exactly the first occurrences of each distinct row, in their original
\* order, and duplicates_removed is the number of rows removed; without it
\* the stage removes nothing and duplicates_removed = 0.  (The later stages
\* remove rows only under drop, which removes the rows with a missing cell,
\* and change cells only when filling or converting.)
C5_Duplicates ==
    Cleaned =>
        LET kept == IF arg.cfg.remove_duplicates
                    THEN FirstOccurrences(Input) ELSE 1..len(Input)
            left == IF arg.cfg.handle_missing = "drop"
                    THEN {i \in kept : ~RowHasNull(Input.data[i])} ELSE kept
        IN  /\ res.stats.duplicates_removed = len(Input) - Cardinality(kept)
            /\ Len(Output.index) = Cardinality(left)
            /\ \A k \in 1..Len(Output.index) : Output.index[k] + 1 \in left
            /\ Increasing(Output.index)
            /\ (arg.cfg.handle_missing \in {"drop", "fill_zero"}
                /\ ~arg.cfg.convert_types) =>
                   \A k \in 1..len(Output) :
                       Output.data[k] = Input.data[Output.index[k] + 1]

\* rows [A, A, B, A] give [A, B] and duplicates_removed = 2
C5_Witness ==
    /\ Cleaned
    /\ arg.cfg.remove_duplicates
    /\ Input.data = <<<<Str("1")>>, <<Str("1")>>, <<Str("x")>>, <<Str("1")>>>>
    /\ Output.data = <<<<Str("1")>>, <<Str("x")>>>>
    /\ Output.index = <<0, 2>>
    /\ res.stats.duplicates_removed = 2

\* C6: with remove_duplicates and policy drop, for every convert_types,
\* cleaning the output again returns the same dataset, and the first output
\* has no duplicate row and no row with a missing cell.
C6_DropIdempotent ==
    (pc = "recleaned" /\ arg.cfg.remove_duplicates
        /\ arg.cfg.handle_missing = "drop") =>
        /\ heap[res2.df_cleaned] = Output
        /\ FirstOccurrences(Output) = 1..len(Output)
        /\ \A i \in 1..len(Output) : ~RowHasNull(Output.data[i])

\* C7: under fill_mean and fill_median every categorical or datetime column
\* that had missing cells keeps its missing count, and some warning lists
\* its name.
C7_NonNumericUntouched ==
    (Cleaned /\ arg.cfg.handle_missing \in {"fill_mean", "fill_median"}) =>
        \A j \in 1..NumCols(Input) :
            (Input.dtypes[j] \in CategoricalKinds \cup DatetimeKinds
                /\ NullCount(Input, j) > 0) =>
                /\ NullCount(Output, j) = NullCount(Input, j)
                /\ \E w \in 1..Len(res.stats.warnings) :
                       Occurrences(res.stats.warnings[w].cols, Input.columns[j]) > 0

\* C8: under fill_mode no column of the returned dataset has a missing cell
\* unless it was entirely missing at the start of the missing-value stage.
C8_ModeFillsAll ==
    (Cleaned /\ arg.cfg.handle_missing = "fill_mode") =>
        \A j \in 1..NumCols(Output) :
            \/ NullCount(Output, j) = 0
            \/ /\ len(BeforeMissing) > 0
               /\ NullCount(BeforeMissing, j) = len(BeforeMissing)

\* C9: with convert_types a text column is replaced by its numeric parse and
\* counted iff more than 80% of its non-missing values parse; the missing
\* cells of the column play no part.  BeforeConvert is the dataset the
\* conversion stage receives.
BeforeConvert ==
    LET s2 == StageMissing(<<BeforeMissing>>, 1, arg.cfg.handle_missing)
    IN  s2.heap[s2.ref]

ParsedCount(df, j) == NotNaCount(to_numeric(Column(df, j)))

PresentCount(df, j) == len(df) - NullCount(df, j)

MostPresentParse(df, j) ==
    /\ PresentCount(df, j) > 0
    /\ ParsedCount(df, j) * ThresholdDen > ThresholdNum * PresentCount(df, j)

C9_ConvertByPresentRatio ==
    (Cleaned /\ arg.cfg.convert_types) =>
        /\ \A j \in 1..NumCols(Input) :
               BeforeConvert.dtypes[j] = "object" =>
                   IF MostPresentParse(BeforeConvert, j)
                   THEN /\ Output.dtypes[j] \in NumericKinds
                        /\ Column(Output, j) = to_numeric(Column(BeforeConvert, j))
                   ELSE /\ Output.dtypes[j] = "object"
                        /\ Column(Output, j) = Column(BeforeConvert, j)
        /\ res.stats.types_converted =
               Cardinality({j \in 1..NumCols(Input) :
                   /\ BeforeConvert.dtypes[j] = "object"
                   /\ MostPresentParse(BeforeConvert, j)})

\* C13: under fill_mean and fill_median, missing_handled is the number of
\* numeric columns actually filled: those with missing cells at the start of
\* the missing-value stage and none after it; a numeric column that stays
\* unfilled (all its values missing) is not counted.
C13_CountsFilledColumns ==
    (Cleaned /\ arg.cfg.handle_missing \in {"fill_mean", "fill_median"}) =>
        res.stats.missing_handled =
            Cardinality({j \in 1..NumCols(BeforeMissing) :
                /\ BeforeMissing.dtypes[j] \in NumericKinds
                /\ NullCount(BeforeMissing, j) > 0
                /\ NullCount(BeforeConvert, j) = 0})

\* C17: for a recognised policy the row accounting is exact and the stages
\* run in the order duplicates, missing values, type coercion: final_rows =
\* original_rows - duplicates_removed - (missing_handled under drop, else 0)
\* = the row count of the returned dataset; final_cols = original_cols and
\* the columns are those of the input; duplicates are counted on the input,
\* dropped rows on the de-duplicated dataset, and conversions on the
\* dataset left by the missing-value stage.
C17_RowAccounting ==
    (Cleaned /\ arg.cfg.handle_missing \in Policies) =>
        /\ res.stats.original_rows = len(Input)
        /\ res.stats.original_cols = NumCols(Input)
        /\ res.stats.final_rows =
               res.stats.original_rows - res.stats.duplicates_removed
               - (IF arg.cfg.handle_missing = "drop"
                  THEN res.stats.missing_handled ELSE 0)
        /\ res.stats.final_rows = len(Output)
        /\ res.stats.final_cols = res.stats.original_cols
        /\ Output.columns = Input.columns
        /\ \A i \in 1..len(Output) : Len(Output.data[i]) = NumCols(Input)
        /\ res.stats.duplicates_removed = len(Input) - len(BeforeMissing)
        /\ arg.cfg.handle_missing = "drop" =>
               res.stats.missing_handled =
                   Cardinality({i \in 1..len(BeforeMissing) :
                                   RowHasNull(BeforeMissing.data[i])})
        /\ res.stats.types_converted =
               IF arg.cfg.convert_types
               THEN Cardinality({j \in 1..NumCols(Input) :
                       /\ BeforeConvert.dtypes[j] = "object"
                       /\ ParsedCount(BeforeConvert, j) * ThresholdDen
                              > ThresholdNum * len(BeforeConvert)})
               ELSE 0

\* rows [NaN, NaN, '1', '1']: one duplicate of each removed, then the
\* missing row dropped, then the remaining '1' converted
C17_Witness ==
    /\ Cleaned
    /\ arg.cfg = [remove_duplicates |-> TRUE, handle_missing |-> "drop",
                  convert_types |-> TRUE]
    /\ Input.data = <<<<NA>>, <<NA>>, <<Str("1")>>, <<Str("1")>>>>
    /\ res.stats.duplicates_removed = 2
    /\ res.stats.missing_handled = 1
    /\ res.stats.types_converted = 1
    /\ res.stats.final_rows = 1
    /\ Output.data = <<<<Num(1)>>>>

(***************************************************************************)
Detected == pc = "detected"

Asked == ColumnIndex(Input, arg.column)

NumericAsked == Asked # 0 /\ Input.dtypes[Asked] \in NumericKinds

\* the labels of the rows the call flagged (none when it returned no frame)
Flagged == IF res.outliers_df = None THEN {}
           ELSE {res.outliers_df.index[k] : k \in 1..Len(res.outliers_df.index)}

Value(label) == Input.data[label + 1][Asked]

\* C10: for a numeric column a row is flagged iff its value is present and
\* strictly below lower_bound = Q1 - 1.5*IQR or strictly above upper_bound =
\* Q3 + 1.5*IQR; each flagged row's reason names the bound its value
\* violates; outliers_count is the number of flagged rows.  (A call that
\* raises flags nothing, and then no row has a present value.)
C10_FlaggedIffOutside ==
    (Detected /\ NumericAsked) =>
        IF res.outcome = "returned"
        THEN LET st == res.stats
                 out == res.outliers_df
             IN  /\ st.IQR = RSub(st.Q3, st.Q1)
                 /\ st.lower_bound = RSub(st.Q1, RScale(st.IQR, 3, 2))
                 /\ st.upper_bound = RAdd(st.Q3, RScale(st.IQR, 3, 2))
                 /\ \A i \in 1..len(Input) :
                        (Input.index[i] \in Flagged) <=>
                            /\ ~isnull(Input.data[i][Asked])
                            /\ \/ RLess(Input.data[i][Asked], st.lower_bound)
                               \/ RLess(st.upper_bound, Input.data[i][Asked])
                 /\ \A k \in 1..Len(out.index) :
                        /\ out.data[k] = Input.data[out.index[k] + 1]
                        /\ IF RLess(Value(out.index[k]), st.lower_bound)
                           THEN out.outlier_reason[k].text = "Below"
                           ELSE /\ RLess(st.upper_bound, Value(out.index[k]))
                                /\ out.outlier_reason[k].text = "Above"
                 /\ Len(out.index) = Cardinality(Flagged)
                 /\ st.outliers_count = Cardinality(Flagged)
        ELSE \A i \in 1..len(Input) : isnull(Input.data[i][Asked])

\* a call that flagged one row below and one row above the bounds and left
\* unflagged a value equal to a bound
C10_Witness ==
    /\ Detected
    /\ NumericAsked
    /\ res.outcome = "returned"
    /\ res.stats.outliers_count = 1
    /\ \E k \in 1..Len(res.outliers_df.index) :
           res.outliers_df.outlier_reason[k].text = "Above"
    /\ \E i \in 1..len(Input) :
           /\ Input.data[i][Asked] = res.stats.lower_bound
           /\ Input.index[i] \notin Flagged

\* C12: detect_outliers never raises: it returns (None, None) exactly when
\* the column is absent or not numeric, and otherwise a pair whose
\* outliers_percentage is outliers_count / non-missing values * 100, also for
\* a numeric column without any non-missing value and for an empty dataset.
C12_NeverRaises ==
    Detected =>
        /\ res.outcome = "returned"
        /\ (res.outliers_df = None /\ res.stats = None) <=> ~NumericAsked
        /\ NumericAsked =>
               /\ res.stats.total_values = PresentCount(Input, Asked)
               /\ res.stats.outliers_count = Len(res.outliers_df.index)
               /\ res.stats.outliers_percentage =
                      Rat(100 * res.stats.outliers_count, res.stats.total_values)

(***************************************************************************)
(* Properties of suggest_chart_type (SpecChart).                           *)
(***************************************************************************)
\* the storage type of the column with the given label ("" when absent)
DTypeOf(df, name) ==
    IF ColumnIndex(df, name) = 0 THEN "" ELSE df.dtypes[ColumnIndex(df, name)]

NumericColumn(df, name) == DTypeOf(df, name) \in NumericKinds

\* C11: suggest_chart_type follows the decision table: numeric x, no y ->
\* histogram; non-numeric x, no y -> bar; numeric x, numeric y -> scatter;
\* exactly one of x, y numeric -> box; neither numeric, y present -> bar;
\* where a column is numeric iff it is a column of the dataset stored as
\* int64 or float64 (so the result depends on the classification only).
C11_DecisionTable ==
    pc = "suggested" =>
        LET xn == NumericColumn(Input, arg.x_col)
            yn == arg.y_col # None /\ NumericColumn(Input, arg.y_col.label)
        IN  res = IF arg.y_col = None
                  THEN (IF xn THEN "histogram" ELSE "bar")
                  ELSE IF xn /\ yn THEN "scatter"
                       ELSE IF xn # yn THEN "box" ELSE "bar"

(***************************************************************************)
(* The Streamlit session (main): every user interaction reruns the script  *)
(* with the current widget values against st.session_state.                *)
(***************************************************************************)
FileNames == {"a.csv", "b.csv"}

\* what the bytes of an uploaded file hold: one of two tables, or bytes that
\* pd.read_csv / pd.read_excel cannot read
FileContents == {"table1", "table2", "corrupt"}

Files == [name : FileNames, content : FileContents]

FileData(content) ==
    IF content = "table1"
    THEN Frame(<<"float64">>, <<<<Num(1)>>, <<NA>>, <<Num(1)>>>>)
    ELSE Frame(<<"object">>, <<<<Str("1")>>, <<Str("x")>>>>)

\* load_data(file): a new DataFrame, or None after st.error
load_data(h, file) ==
    IF file.content = "corrupt"
    THEN [heap |-> h, df |-> NoneRef]
    ELSE [heap |-> Append(h, FileData(file.content)), df |-> Len(h) + 1]

Session ==
    [heap |-> heap, df_original |-> df_original, df_cleaned |-> df_cleaned,
     cleaning_stats |-> cleaning_stats,
     last_uploaded_file |-> last_uploaded_file, origin_file |-> origin_file]

\* df = load_data(uploaded_file); if df is not None: df_original = df
LoadInto(st, file) ==
    LET ld == load_data(st.heap, file)
    IN  IF ld.df # NoneRef
        THEN [st EXCEPT !.heap = ld.heap, !.df_original = ld.df,
                        !.origin_file = file]
        ELSE st

\* "Load data and auto-reset on new file"
ProcessUpload(st, file) ==
    IF file = None THEN st
    ELSE IF st.last_uploaded_file # file.name
         THEN LoadInto([st EXCEPT !.df_cleaned = NoneRef,
                                  !.cleaning_stats = None,
                                  !.last_uploaded_file = file.name], file)
         ELSE IF st.df_original = NoneRef THEN LoadInto(st, file)
              ELSE st

\* df_work = df_cleaned if df_cleaned is not None else df_original; the
\* welcome screen returns before it when no dataset is loaded
WorkingDataFrame(st) ==
    IF st.df_original = NoneRef THEN NoneRef
    ELSE IF st.df_cleaned # NoneRef THEN st.df_cleaned ELSE st.df_original

\* if clean_btn: session_state.df_cleaned, cleaning_stats = clean_data(...)
OnClean(st, r) ==
    [st EXCEPT !.heap = r.heap, !.df_cleaned = r.df_cleaned,
               !.cleaning_stats = r.stats]

\* (variant: Reset dropping the cleaned dataset and keeping its report)
OnResetKeepingReport(st, reset_btn) ==
    IF reset_btn THEN [st EXCEPT !.df_cleaned = NoneRef] ELSE st

\* if reset_btn: the cleaned dataset and its report are dropped
OnReset(st, reset_btn) ==
    IF reset_btn
    THEN [st EXCEPT !.df_cleaned = NoneRef, !.cleaning_stats = None]
    ELSE st

\* (variant: Clean applied to the working dataset, the cleaned one when held)
ButtonsOnWorking(st, clean_btn, reset_btn, cfg) ==
    IF st.df_original = NoneRef THEN st
    ELSE OnReset(IF clean_btn
                 THEN OnClean(st, clean_data(st.heap, WorkingDataFrame(st), cfg))
                 ELSE st, reset_btn)

\* the Clean and Reset buttons, shown only when a dataset is loaded
Buttons(st, clean_btn, reset_btn, cfg) ==
    IF st.df_original = NoneRef THEN st
    ELSE OnReset(IF clean_btn
                 THEN OnClean(st, clean_data(st.heap, st.df_original, cfg))
                 ELSE st, reset_btn)

\* objects no session field refers to any more are freed
Collect(st) ==
    LET o == st.df_original
        c == st.df_cleaned
    IN  [st EXCEPT
            !.heap = (IF o # NoneRef THEN <<st.heap[o]>> ELSE <<>>)
                     \o (IF c # NoneRef /\ c # o THEN <<st.heap[c]>> ELSE <<>>),
            !.df_original = IF o # NoneRef THEN 1 ELSE NoneRef,
            !.df_cleaned = IF c = NoneRef THEN NoneRef
                           ELSE IF c = o \/ o = NoneRef THEN 1 ELSE 2]

\* st.session_state after the run, and the dataset the tabs then show
Store(st) ==
    /\ heap' = st.heap
    /\ df_original' = st.df_original
    /\ df_cleaned' = st.df_cleaned
    /\ cleaning_stats' = st.cleaning_stats
    /\ last_uploaded_file' = st.last_uploaded_file
    /\ origin_file' = st.origin_file
    /\ df_work' = WorkingDataFrame(st)

\* one run of main() up to the end of the sidebar
RunScript(file, clean_btn, reset_btn, cfg) ==
    /\ uploaded_file' = file
    /\ Store(Collect(Buttons(ProcessUpload(Session, file),
                             clean_btn, reset_btn, cfg)))
    /\ last_config' = IF clean_btn THEN cfg ELSE last_config
    /\ UNCHANGED <<pc, arg, res, res2>>

DefaultConfig ==
    [remove_duplicates |-> TRUE, handle_missing |-> "drop", convert_types |-> TRUE]

Init ==
    /\ SessionIdle
    /\ heap = <<>>
    /\ pc = "session"
    /\ arg = None
    /\ res = None
    /\ res2 = None

\* the user picks a file in the uploader
Upload ==
    \E f \in Files :
        /\ RunScript(f, FALSE, FALSE, DefaultConfig)
        /\ last_action' = "upload"

\* the user removes the file from the uploader
RemoveFile ==
    /\ uploaded_file # None
    /\ RunScript(None, FALSE, FALSE, DefaultConfig)
    /\ last_action' = "remove"

\* the user sets the cleaning options and presses Clean
Clean ==
    /\ df_original # NoneRef
    /\ \E cfg \in Configs(Policies) : RunScript(uploaded_file, TRUE, FALSE, cfg)
    /\ last_action' = "clean"

\* the user presses Reset
Reset ==
    /\ df_original # NoneRef
    /\ RunScript(uploaded_file, FALSE, TRUE, DefaultConfig)
    /\ last_action' = "reset"

Next == Upload \/ RemoveFile \/ Clean \/ Reset

Spec == Init /\ [][Next]_vars

\* C1: when the user switches to a file other than the one the held original
\* dataset was loaded from, the session holds no cleaned dataset and no
\* report once the upload is processed, and none appears until the next
\* Clean.
C1_NewFileInvalidates ==
    [][/\ (last_action' = "upload" /\ uploaded_file' # origin_file) =>
              (df_cleaned' = NoneRef /\ cleaning_stats' = None)
       /\ ((df_cleaned = NoneRef /\ df_cleaned' # NoneRef)
           \/ (cleaning_stats = None /\ cleaning_stats' # None)) =>
              last_action' = "clean"]_vars

\* the result of clean_data on the held original with the options of the
\* most recent Clean
Expected == clean_data(heap, df_original, last_config)

HeldAsCleaned(r) ==
    /\ heap[df_cleaned] = r.heap[r.df_cleaned]
    /\ cleaning_stats = r.stats

\* C14: whenever a cleaned dataset is held, it and its report equal
\* clean_data applied to the held original dataset with the configuration of
\* the most recent Clean (so Clean is never applied to a cleaned dataset and
\* repeated Cleans do not accumulate); Clean and Reset leave the held
\* original dataset unchanged.
C14_CleanedFromOriginal ==
    /\ [](df_cleaned # NoneRef =>
            (df_original # NoneRef /\ last_config # None /\ HeldAsCleaned(Expected)))
    /\ [][last_action' \in {"clean", "reset"} =>
              /\ df_original # NoneRef /\ df_original' # NoneRef
              /\ heap'[df_original'] = heap[df_original]
              /\ origin_file' = origin_file]_vars

\* a Clean with fill_mean and no duplicate removal: the held cleaned dataset
\* has all three rows of the original, with the missing cell filled
C14_Witness ==
    /\ last_action = "clean"
    /\ df_cleaned # NoneRef
    /\ last_config = [remove_duplicates |-> FALSE, handle_missing |-> "fill_mean",
                      convert_types |-> FALSE]
    /\ len(heap[df_original]) = 3
    /\ cleaning_stats.missing_handled = 1
    /\ len(heap[df_cleaned]) = 3
    /\ heap[df_cleaned] # heap[df_original]

\* C15: whenever the session holds an original dataset, it is the dataset
\* loaded from the file whose name is recorded as last_uploaded_file; after
\* an upload whose load fails the previous file's dataset is not kept as the
\* working dataset under the new file's name.
C15_OriginalFromRecordedFile ==
    df_original # NoneRef =>
        /\ origin_file # None
        /\ origin_file.name = last_uploaded_file
        /\ heap[df_original] = FileData(origin_file.content)

\* C16: the session holds a cleaned dataset iff it holds a cleaning report
\* (so the cleaning tab never reads fields of an absent report), and the
\* working dataset is the cleaned dataset when one is held, otherwise the
\* original (none before any dataset is loaded).
C16_CleanedIffReport ==
    /\ (df_cleaned # NoneRef) <=> (cleaning_stats # None)
    /\ df_cleaned # NoneRef => (df_original # NoneRef /\ df_work = df_cleaned)
    /\ df_cleaned = NoneRef => df_work = df_original

\* a Reset after a Clean: neither is held and the original is shown again
C16_Witness ==
    /\ last_action = "reset"
    /\ last_config # None
    /\ df_cleaned = NoneRef
    /\ cleaning_stats = None
    /\ df_original # NoneRef
    /\ df_work = df_original

====
